---- MODULE Spec2Model ----
(***************************************************************************)
(* Nearest-neighbour image classifier of the MachineLearning notebooks:    *)
(* get_random_subset (the sampler), classify_image (one query at a time),  *)
(* classify_images (the full distance matrix) and get_average_accuracy /   *)
(* accuracy_info (the accuracy-versus-subset-size experiment).             *)
(*                                                                         *)
(* Arrays are sequences (index 1 is Python's index 0).  A table row is     *)
(* <<label, x1, ..., xL>>.  numpy's floating point cells are modelled by   *)
(* integers: the data are integer pixel values and integer labels, for     *)
(* which differences, squares and their sums are exact.  Quotients         *)
(* (accuracies) are modelled exactly as fractions [num, den].              *)
(***************************************************************************)
EXTENDS Integers, Sequences, FiniteSets, TLC

VARIABLES
    pc,                 \* position in the notebook
    err,                \* the exception that ended the run, "none" while running
    IMAGE_LENGTH,       \* global: test_data.shape[1] - 1
    train_data,         \* global: the train pool, one row per sample
    test_data,          \* global: the test pool
    train_size,         \* global: size of the reference subset of cell 5
    test_size,          \* global: size of the query set
    indexes,            \* get_random_subset: the indexes of the latest draw
    train_img,          \* global: reference vectors
    train_labels,       \* global: reference labels
    test_img,           \* global: query vectors
    test_labels,        \* global: true labels of the queries
    predicted_results,  \* global: result of the list comprehension over classify_image
    res,                \* result of classify_images
    success_count,      \* global: matching predictions of cell 7
    accuracy,           \* global: success_count / test_size
    DM_cells,           \* cells of the largest array the latest classification built
    size_of_subset_v,   \* global: the sizes of the schedule
    count_of_iters_v,   \* global: the repetition counts of the schedule
    zip_pos,            \* cell 9: entries of zip(...) already consumed
    points,             \* cell 9: the list the comprehension has built so far
    gaa,                \* get_average_accuracy: parameters and locals of the call
    round_counts,       \* history: the success_count of each round of the call so far
    accuracy_info       \* global: the accuracy points

dataVars == <<IMAGE_LENGTH, train_data, test_data, train_size, test_size>>

subsetVars == <<train_img, train_labels, test_img, test_labels>>

cellVars == <<predicted_results, res, success_count, accuracy>>

scheduleVars == <<size_of_subset_v, count_of_iters_v>>

runVars == <<zip_pos, points, gaa, round_counts, accuracy_info>>

vars ==
    <<pc, err, indexes, dataVars, subsetVars, cellVars, DM_cells, scheduleVars, runVars>>

(***************************************************************************)
(* Bounds of the model.                                                    *)
(***************************************************************************)
MaxRef == 3

MaxQueries == 2

MaxRows == 3

MaxIters == 2

ScheduleLengths == {0, 1, 2}

Values == {0, 1}

Lengths == {1, 2}

Labels == {0, 1}

(***************************************************************************)
(* numpy helpers.                                                          *)
(***************************************************************************)
RECURSIVE SumSeq(_)
SumSeq(s) == IF s = <<>> THEN 0 ELSE s[1] + SumSeq(Tail(s))

RECURSIVE Flatten(_)
Flatten(a) == IF a = <<>> THEN <<>> ELSE a[1] \o Flatten(Tail(a))

\* a.reshape(n, len): row i of the reshaped array
reshape(a, n, len) ==
    [i \in 1..n |-> SubSeq(Flatten(a), (i - 1) * len + 1, i * len)]

\* reshape raises ValueError unless the sizes agree
reshape_raises(a, n, len) == Len(Flatten(a)) # n * len

\* shapes (m,) and (N, L) broadcast iff the trailing dimensions agree or one is 1
broadcastable(m, L) == m = L \/ m = 1 \/ L = 1

\* q - r under broadcasting, for broadcastable lengths
broadcast_sub(q, r) ==
    LET n == IF Len(q) >= Len(r) THEN Len(q) ELSE Len(r)
    IN  [j \in 1..n |-> (IF Len(q) = 1 THEN q[1] ELSE q[j])
                        - (IF Len(r) = 1 THEN r[1] ELSE r[j])]

square(v) == [j \in 1..Len(v) |-> v[j] * v[j]]

\* argmin scans left to right and moves only on a strictly smaller value
RECURSIVE argmin_scan(_, _, _)
argmin_scan(DM, i, best) ==
    IF i > Len(DM) THEN best
    ELSE argmin_scan(DM, i + 1, IF DM[i] < DM[best] THEN i ELSE best)

argmin_last(DM) ==
    CHOOSE i \in 1..Len(DM) :
        /\ \A j \in 1..Len(DM) : DM[i] <= DM[j]
        /\ \A j \in 1..Len(DM) : DM[j] = DM[i] => j <= i

argmin(DM) == argmin_scan(DM, 2, 1)

(***************************************************************************)
(* classify_image(test_img, train_img, train_labels)                       *)
(***************************************************************************)
distance_plain(q, r) == SumSeq(broadcast_sub(q, r))

\* one entry of np.square(test_img - train_img).sum(axis = 1)
distance(q, r) == SumSeq(square(broadcast_sub(q, r)))

DM_image(q, refs) == [i \in 1..Len(refs) |-> distance(q, refs[i])]

\* the subtraction raises on shapes that do not broadcast, argmin on an empty DM
classify_image_raises(q, refs) ==
    \/ Len(refs) = 0
    \/ ~broadcastable(Len(q), Len(refs[1]))

classify_image_farthest(q, refs, labels) ==
    labels[argmin([i \in 1..Len(refs) |-> 0 - distance(q, refs[i])])]

classify_image(q, refs, labels) == labels[argmin(DM_image(q, refs))]

\* cells of test_img - train_img in one call: shape (N, L)
cells_image(q, refs) ==
    IF refs = <<>> THEN 0 ELSE Len(refs) * Len(broadcast_sub(q, refs[1]))

Max(S) == CHOOSE x \in S : \A y \in S : y <= x

\* the differences of all the queries held at once
cells_whole(queries, refs) ==
    SumSeq([k \in 1..Len(queries) |-> cells_image(queries[k], refs)])

\* the largest array of the comprehension: one call's, the calls run one by one
cells_stream(queries, refs) ==
    IF queries = <<>> THEN 0
    ELSE Max({cells_image(queries[k], refs) : k \in 1..Len(queries)})

\* [classify_image(test, train_img, train_labels) for test in test_img]
stream_raises(queries, refs) ==
    \E k \in 1..Len(queries) : classify_image_raises(queries[k], refs)

stream(queries, refs, labels) ==
    [k \in 1..Len(queries) |-> classify_image(queries[k], refs, labels)]

(***************************************************************************)
(* classify_images(train_img, train_labels, test_img, N_train, N_test)     *)
(***************************************************************************)
classify_images_raises(refs, queries, N_train, N_test) ==
    \/ reshape_raises(refs, N_train, IMAGE_LENGTH)
    \/ reshape_raises(queries, N_test, IMAGE_LENGTH)
    \/ N_train = 0

\* cells of Te - Tr: shape (N_train, N_test, IMAGE_LENGTH)
cells_images(N_train, N_test) == N_train * N_test * IMAGE_LENGTH

classify_images(refs, labels, queries, N_train, N_test) ==
    LET Tr == reshape(refs, N_train, IMAGE_LENGTH)
        Te == reshape(queries, N_test, IMAGE_LENGTH)
        DM == [i \in 1..N_train |-> [k \in 1..N_test |-> distance(Te[k], Tr[i])]]
        ix == [k \in 1..N_test |-> argmin([i \in 1..N_train |-> DM[i][k]])]
    IN  [k \in 1..N_test |-> labels[ix[k]]]

(***************************************************************************)
(* get_random_subset(data, new_size)                                       *)
(***************************************************************************)
Injective(s) == \A i, j \in 1..Len(s) : s[i] = s[j] => i = j

\* np.random.choice(old_size, new_size, replace = False) raises ValueError
choice_raises(old_size, new_size) ==
    old_size <= 0 \/ new_size < 0 \/ new_size > old_size

choice_with_replacement(old_size, new_size) == [1..new_size -> 1..old_size]

\* the draws np.random.choice(old_size, new_size, replace = False) can return
choice(old_size, new_size) ==
    {s \in [1..new_size -> 1..old_size] : Injective(s)}

\* .astype(int) truncates towards zero; the label cells are integers
astype_int(x) == x

\* data[indexes, 0].astype(int)
labels_of(data, idx) == [i \in 1..Len(idx) |-> astype_int(data[idx[i]][1])]

\* data[indexes, 1:]
images_of(data, idx) == [i \in 1..Len(idx) |-> Tail(data[idx[i]])]

(***************************************************************************)
(* Scoring: (predicted_results == test_labels).sum() and the quotients.    *)
(***************************************************************************)
\* the elementwise comparison fails on lengths that do not broadcast
equal_raises(a, b) == ~broadcastable(Len(a), Len(b))

\* (a == b).sum() for broadcastable lengths
count_equal(a, b) ==
    LET n == IF Len(a) = 1 THEN Len(b) ELSE Len(a)
    IN  Cardinality({i \in 1..n :
            (IF Len(a) = 1 THEN a[1] ELSE a[i]) = (IF Len(b) = 1 THEN b[1] ELSE b[i])})

RECURSIVE GCD(_, _)
GCD(a, b) == IF b = 0 THEN a ELSE GCD(b, a % b)

\* a quotient in lowest terms; den = 0 is numpy's nan (0 / 0)
Frac(n, d) ==
    IF d = 0 THEN [num |-> 0, den |-> 0]
    ELSE [num |-> n \div GCD(n, d), den |-> d \div GCD(n, d)]

FracAdd(a, b) ==
    IF a.den = 0 \/ b.den = 0 THEN Frac(0, 0)
    ELSE Frac(a.num * b.den + b.num * a.den, a.den * b.den)

FracDiv(a, n) == IF a.den = 0 THEN Frac(0, 0) ELSE Frac(a.num, a.den * n)

(***************************************************************************)
(* SpecClassify: the two classifiers applied to every bounded reference    *)
(* set and query array.                                                    *)
(***************************************************************************)
NoCall ==
    [test_img |-> <<>>, train_data |-> <<>>, train_subset_size |-> 0,
     iterations_count |-> 0, total_accuracy |-> Frac(0, 1), i |-> 0,
     train_labels |-> <<>>, train_img |-> <<>>, predicted_results |-> <<>>,
     success_count |-> 0]

NoRun ==
    /\ size_of_subset_v = <<>>
    /\ count_of_iters_v = <<>>
    /\ zip_pos = 0
    /\ points = <<>>
    /\ gaa = NoCall
    /\ round_counts = <<>>
    /\ accuracy_info = <<>>

NoCells ==
    /\ predicted_results = <<>>
    /\ res = <<>>
    /\ success_count = 0
    /\ accuracy = Frac(0, 1)
    /\ DM_cells = 0

InitClassify ==
    /\ pc = "classify"
    /\ err = "none"
    /\ train_data = <<>>
    /\ test_data = <<>>
    /\ indexes = <<>>
    /\ \E L \in Lengths, N \in 0..MaxRef :
          /\ train_size = N
          /\ train_img \in [1..N -> [1..L -> Values]]
          /\ train_labels \in [1..N -> Labels]
    /\ \E m \in Lengths, M \in 0..MaxQueries :
          /\ IMAGE_LENGTH = m
          /\ test_size = M
          /\ test_img \in [1..M -> [1..m -> Values]]
          /\ test_labels = [q \in 1..M |-> 0]
    /\ NoCells
    /\ NoRun

Streaming ==
    /\ pc = "classify"
    /\ IF stream_raises(test_img, train_img)
       THEN /\ pc' = "stream_failed"
            /\ err' = "ValueError"
            /\ UNCHANGED <<predicted_results, DM_cells>>
       ELSE /\ pc' = "streamed"
            /\ predicted_results' = stream(test_img, train_img, train_labels)
            /\ DM_cells' = cells_stream(test_img, train_img)
            /\ UNCHANGED err
    /\ UNCHANGED <<indexes, dataVars, subsetVars, res, success_count, accuracy,
                   scheduleVars, runVars>>

Batched ==
    /\ pc \in {"streamed", "stream_failed"}
    /\ IF classify_images_raises(train_img, test_img, Len(train_img), Len(test_img))
       THEN /\ pc' = IF pc = "streamed" THEN "batch_failed" ELSE "both_failed"
            /\ err' = "ValueError"
            /\ UNCHANGED <<res, DM_cells>>
       ELSE /\ pc' = IF pc = "streamed" THEN "both_done" ELSE "batch_only"
            /\ res' = classify_images(train_img, train_labels, test_img,
                                      Len(train_img), Len(test_img))
            /\ DM_cells' = cells_images(Len(train_img), Len(test_img))
            /\ UNCHANGED err
    /\ UNCHANGED <<indexes, dataVars, subsetVars, predicted_results, success_count,
                   accuracy, scheduleVars, runVars>>

NextClassify == Streaming \/ Batched

\* the older notebook's loop: one classify_images call per query, N_test = 1
each_raises(refs, queries) ==
    \E k \in 1..Len(queries) :
        classify_images_raises(refs, <<queries[k]>>, Len(refs), 1)

each(refs, labels, queries) ==
    [k \in 1..Len(queries) |->
        classify_images(refs, labels, <<queries[k]>>, Len(refs), 1)]

\* success_count = 0; for label, test in zip(test_labels, test_img): res = ...;
\* accuracy = success_count / test_N (train_N, test_N are train_size, test_size)
ClassifyEach ==
    /\ pc = "classify"
    /\ success_count' = IF each_raises(train_img, test_img) THEN 0
                        ELSE Cardinality({k \in 1..Len(test_img) :
                                each(train_img, train_labels, test_img)[k][1]
                                    = test_labels[k]})
    /\ IF each_raises(train_img, test_img)
       THEN /\ pc' = "each_failed"
            /\ err' = "ValueError"
            /\ UNCHANGED <<res, accuracy, DM_cells>>
       ELSE IF test_size = 0
            THEN /\ pc' = "each_failed"
                 /\ err' = "ZeroDivisionError"
                 /\ UNCHANGED <<res, accuracy, DM_cells>>
            ELSE /\ pc' = "each_done"
                 /\ res' = each(train_img, train_labels, test_img)[Len(test_img)]
                 /\ accuracy' = Frac(success_count', test_size)
                 /\ DM_cells' = cells_images(Len(train_img), 1)
                 /\ UNCHANGED err
    /\ UNCHANGED <<indexes, dataVars, subsetVars, predicted_results,
                   scheduleVars, runVars>>

SpecClassify == InitClassify /\ [][NextClassify]_vars

(***************************************************************************)
(* SpecScenario: the 4-vector reference set of the end-to-end scenario,    *)
(* in tenths ((0,0.4) is <<0, 4>>; squared distances are in hundredths),   *)
(* with queries from the grid around it.                                   *)
(***************************************************************************)
ScenarioRefs == << <<0, 0>>, <<0, 10>>, <<50, 50>>, <<50, 60>> >>

ScenarioLabels == <<0, 0, 1, 1>>

ScenarioGrid == {<<x, y>> : x \in {0, 50}, y \in {0, 4, 10, 50, 54, 60}}

InitScenario ==
    /\ pc = "classify"
    /\ err = "none"
    /\ train_data = <<>>
    /\ test_data = <<>>
    /\ indexes = <<>>
    /\ train_size = Len(ScenarioRefs)
    /\ train_img = ScenarioRefs
    /\ train_labels = ScenarioLabels
    /\ IMAGE_LENGTH = 2
    /\ \E M \in 0..MaxQueries :
          /\ test_size = M
          /\ test_img \in [1..M -> ScenarioGrid]
          /\ test_labels = [q \in 1..M |-> 0]
    /\ NoCells
    /\ NoRun

SpecScenario == InitScenario /\ [][NextClassify]_vars

(***************************************************************************)
(* The notebook, cell by cell.  A step that raises sets err and leaves pc  *)
(* at the statement that raised; nothing runs after it.                    *)
(***************************************************************************)
\* cell 5: train_labels, train_img = get_random_subset(train_data, train_size)
DrawTrain ==
    /\ pc = "draw_train"
    /\ err = "none"
    /\ IF choice_raises(Len(train_data), train_size)
       THEN /\ err' = "ValueError"
            /\ UNCHANGED <<pc, indexes, train_labels, train_img>>
       ELSE \E idx \in choice(Len(train_data), train_size) :
              /\ indexes' = idx
              /\ train_labels' = labels_of(train_data, idx)
              /\ train_img' = images_of(train_data, idx)
              /\ pc' = "draw_test"
              /\ UNCHANGED err
    /\ UNCHANGED <<dataVars, test_img, test_labels, cellVars, DM_cells,
                   scheduleVars, runVars>>

\* cell 5: test_labels, test_img = get_random_subset(test_data, test_size)
DrawTest ==
    /\ pc = "draw_test"
    /\ err = "none"
    /\ IF choice_raises(Len(test_data), test_size)
       THEN /\ err' = "ValueError"
            /\ UNCHANGED <<pc, indexes, test_labels, test_img>>
       ELSE \E idx \in choice(Len(test_data), test_size) :
              /\ indexes' = idx
              /\ test_labels' = labels_of(test_data, idx)
              /\ test_img' = images_of(test_data, idx)
              /\ pc' = "cell7"
              /\ UNCHANGED err
    /\ UNCHANGED <<dataVars, train_img, train_labels, cellVars, DM_cells,
                   scheduleVars, runVars>>

\* cell 7: predicted_results, success_count, accuracy
Cell7 ==
    /\ pc = "cell7"
    /\ err = "none"
    /\ IF stream_raises(test_img, train_img)
       THEN /\ err' = "ValueError"
            /\ UNCHANGED <<pc, predicted_results, success_count, accuracy, DM_cells>>
       ELSE LET pred == stream(test_img, train_img, train_labels)
            IN  /\ predicted_results' = pred
                /\ DM_cells' = cells_stream(test_img, train_img)
                /\ IF equal_raises(pred, test_labels)
                   THEN /\ err' = "ValueError"
                        /\ UNCHANGED <<pc, success_count, accuracy>>
                   ELSE /\ success_count' = count_equal(pred, test_labels)
                        /\ accuracy' = Frac(count_equal(pred, test_labels), test_size)
                        /\ pc' = "cell9"
                        /\ UNCHANGED err
    /\ UNCHANGED <<indexes, dataVars, subsetVars, res, scheduleVars, runVars>>

\* zip(size_of_subset_v, count_of_iters_v) stops with the shorter list
zip_len ==
    IF Len(size_of_subset_v) <= Len(count_of_iters_v)
    THEN Len(size_of_subset_v) ELSE Len(count_of_iters_v)

\* a comprehension that calls again after a failed call
Call_retrying ==
    /\ \/ pc = "cell9" /\ err = "none"
       \/ pc = "loop" /\ err # "none"
    /\ zip_pos < zip_len
    /\ gaa' = [test_img |-> test_img, train_data |-> train_data,
               train_subset_size |-> size_of_subset_v[zip_pos + 1],
               iterations_count |-> count_of_iters_v[zip_pos + 1],
               total_accuracy |-> Frac(0, 1), i |-> 0,
               train_labels |-> <<>>, train_img |-> <<>>,
               predicted_results |-> <<>>, success_count |-> 0]
    /\ round_counts' = <<>>
    /\ indexes' = <<>>
    /\ pc' = "loop"
    /\ err' = "none"
    /\ UNCHANGED <<dataVars, subsetVars, cellVars, DM_cells, scheduleVars,
                   zip_pos, points, accuracy_info>>

\* cell 9: the comprehension calls get_average_accuracy(test_img, train_data,
\* size, iters) for the next entry; the call starts with total_accuracy = 0 and
\* no draw made (the locals of the previous calls are gone)
Call ==
    /\ pc = "cell9"
    /\ err = "none"
    /\ zip_pos < zip_len
    /\ gaa' = [test_img |-> test_img, train_data |-> train_data,
               train_subset_size |-> size_of_subset_v[zip_pos + 1],
               iterations_count |-> count_of_iters_v[zip_pos + 1],
               total_accuracy |-> Frac(0, 1), i |-> 0,
               train_labels |-> <<>>, train_img |-> <<>>,
               predicted_results |-> <<>>, success_count |-> 0]
    /\ round_counts' = <<>>
    /\ indexes' = <<>>
    /\ pc' = "loop"
    /\ UNCHANGED <<err, dataVars, subsetVars, cellVars, DM_cells, scheduleVars,
                   zip_pos, points, accuracy_info>>

\* what one round of the loop leaves alone: every global
round_frame_redraw ==
    /\ UNCHANGED <<dataVars, train_img, train_labels, cellVars, scheduleVars,
                   zip_pos, points, accuracy_info>>
    /\ \E idx \in choice(Len(test_data), test_size) :
          /\ test_img' = images_of(test_data, idx)
          /\ test_labels' = labels_of(test_data, idx)

\* a round whose draw shuffles the train pool in place
round_frame_shuffling ==
    /\ UNCHANGED <<IMAGE_LENGTH, test_data, train_size, test_size, subsetVars,
                   cellVars, scheduleVars, zip_pos, points, accuracy_info>>
    /\ train_data' = Tail(train_data) \o <<Head(train_data)>>

round_frame ==
    UNCHANGED <<dataVars, subsetVars, cellVars, scheduleVars,
                zip_pos, points, accuracy_info>>

\* the accuracy one round adds: success_count / test_labels.shape[0]
round_accuracy(count) == Frac(count, Len(test_labels))

\* one pass of "for i in range(iterations_count)": draw, classify, score, add
Round ==
    /\ pc = "loop"
    /\ err = "none"
    /\ gaa.i < gaa.iterations_count
    /\ round_frame
    /\ IF choice_raises(Len(gaa.train_data), gaa.train_subset_size)
       THEN /\ err' = "ValueError"
            /\ UNCHANGED <<pc, indexes, gaa, round_counts, DM_cells>>
       ELSE \E idx \in choice(Len(gaa.train_data), gaa.train_subset_size) :
              LET labels == labels_of(gaa.train_data, idx)
                  images == images_of(gaa.train_data, idx)
              IN  /\ indexes' = idx
                  /\ IF stream_raises(gaa.test_img, images)
                     THEN /\ err' = "ValueError"
                          /\ gaa' = [gaa EXCEPT !.train_labels = labels,
                                                !.train_img = images]
                          /\ UNCHANGED <<pc, round_counts, DM_cells>>
                     ELSE LET pred == stream(gaa.test_img, images, labels)
                              cells == cells_stream(gaa.test_img, images)
                          IN  IF equal_raises(pred, test_labels)
                              THEN /\ err' = "ValueError"
                                   /\ DM_cells' = cells
                                   /\ gaa' = [gaa EXCEPT !.train_labels = labels,
                                                         !.train_img = images,
                                                         !.predicted_results = pred]
                                   /\ UNCHANGED <<pc, round_counts>>
                              ELSE LET count == count_equal(pred, test_labels)
                                   IN  /\ gaa' = [gaa EXCEPT
                                              !.train_labels = labels,
                                              !.train_img = images,
                                              !.predicted_results = pred,
                                              !.success_count = count,
                                              !.total_accuracy =
                                                  FracAdd(@, round_accuracy(count)),
                                              !.i = @ + 1]
                                       /\ round_counts' = Append(round_counts, count)
                                       /\ DM_cells' = cells
                                       /\ UNCHANGED <<pc, err>>

\* where the comprehension puts the value a call returns
collect_front(list, value) == <<value>> \o list

collect(list, value) == Append(list, value)

average_undivided(total, n) == total

\* total_accuracy / iterations_count, for iterations_count # 0
average(total, n) == FracDiv(total, n)

\* a division that yields nan instead of raising
average_raises_never(n) == FALSE

\* with no round run total_accuracy is the int 0, and int / 0 raises
average_raises(n) == n = 0

\* return total_accuracy / iterations_count; the comprehension collects it
ReturnAverage ==
    /\ pc = "loop"
    /\ err = "none"
    /\ gaa.i >= gaa.iterations_count
    /\ IF average_raises(gaa.iterations_count)
       THEN /\ err' = "ZeroDivisionError"
            /\ UNCHANGED <<pc, zip_pos, points>>
       ELSE /\ points' = collect(points, average(gaa.total_accuracy, gaa.iterations_count))
            /\ zip_pos' = zip_pos + 1
            /\ pc' = "cell9"
            /\ UNCHANGED err
    /\ UNCHANGED <<indexes, dataVars, subsetVars, cellVars, DM_cells, scheduleVars,
                   gaa, round_counts, accuracy_info>>

\* cell 9: the comprehension is exhausted and accuracy_info is assigned
Finish ==
    /\ pc = "cell9"
    /\ err = "none"
    /\ zip_pos >= zip_len
    /\ accuracy_info' = points
    /\ pc' = "done"
    /\ UNCHANGED <<err, indexes, dataVars, subsetVars, cellVars, DM_cells,
                   scheduleVars, zip_pos, points, gaa, round_counts>>

(***************************************************************************)
(* SpecSample: cell 5 on every bounded table and every requested size.     *)
(***************************************************************************)
Rows(L) == {<<lab>> \o v : lab \in Labels, v \in [1..L -> Values]}

TestPool == << <<0, 0, 0>>, <<1, 1, 1>>, <<0, 1, 0>> >>

InitSample ==
    /\ pc = "draw_train"
    /\ err = "none"
    /\ indexes = <<>>
    /\ \E L \in Lengths, R \in 1..MaxRows :
          /\ train_data \in [1..R -> Rows(L)]
          /\ train_size \in 0..(R + 1)
    /\ test_data = TestPool
    /\ test_size \in 0..(Len(TestPool) + 1)
    /\ IMAGE_LENGTH = Len(TestPool[1]) - 1
    /\ train_img = <<>>
    /\ train_labels = <<>>
    /\ test_img = <<>>
    /\ test_labels = <<>>
    /\ NoCells
    /\ NoRun

NextSample == DrawTrain \/ DrawTest

SpecSample == InitSample /\ [][NextSample]_vars

(***************************************************************************)
(* Spec: the whole notebook on a 3-row train pool with every bounded       *)
(* schedule.  SpecEndToEnd adds the 8-row balanced pool with the schedule  *)
(* [(2,5),(4,1)].                                                          *)
(***************************************************************************)
TrainPool == << <<0, 0, 0>>, <<1, 1, 1>>, <<1, 0, 1>> >>

Pool8 ==
    << <<0, 0, 0>>, <<0, 0, 1>>, <<0, 1, 0>>, <<0, 0, 0>>,
       <<1, 1, 1>>, <<1, 2, 2>>, <<1, 2, 1>>, <<1, 1, 2>> >>

QueryPool1 == << <<1, 1, 0>> >>

ScheduleSizes == {0, 1, 2, 4}

InitNotebook ==
    /\ pc = "draw_train"
    /\ err = "none"
    /\ indexes = <<>>
    /\ train_img = <<>>
    /\ train_labels = <<>>
    /\ test_img = <<>>
    /\ test_labels = <<>>
    /\ NoCells
    /\ zip_pos = 0
    /\ points = <<>>
    /\ gaa = NoCall
    /\ round_counts = <<>>
    /\ accuracy_info = <<>>

InitBounded ==
    /\ InitNotebook
    /\ train_data = TrainPool
    /\ test_data = TestPool
    /\ IMAGE_LENGTH = Len(TestPool[1]) - 1
    /\ train_size = 1
    /\ test_size = 2
    /\ \E n \in ScheduleLengths :
          /\ size_of_subset_v \in [1..n -> ScheduleSizes]
          /\ count_of_iters_v \in [1..n -> 0..MaxIters]

InitEndToEnd ==
    /\ InitNotebook
    /\ train_data = Pool8
    /\ test_data = QueryPool1
    /\ IMAGE_LENGTH = Len(QueryPool1[1]) - 1
    /\ train_size = 1
    /\ test_size = 1
    /\ size_of_subset_v = <<2, 4>>
    /\ count_of_iters_v = <<5, 1>>

Init == InitBounded

Next == DrawTrain \/ DrawTest \/ Cell7 \/ Call \/ Round \/ ReturnAverage \/ Finish

Spec == Init /\ [][Next]_vars

InitBoth == InitBounded \/ InitEndToEnd

SpecEndToEnd == InitBoth /\ [][Next]_vars

(***************************************************************************)
(* SpecQuerySizes: the notebook with every bounded size of the query set,  *)
(* the empty one included (get_random_subset accepts new_size = 0).        *)
(***************************************************************************)
InitQuerySizes ==
    /\ InitNotebook
    /\ train_data = TrainPool
    /\ test_data = TestPool
    /\ IMAGE_LENGTH = Len(TestPool[1]) - 1
    /\ train_size = 1
    /\ test_size \in 0..MaxQueries
    /\ \E n \in ScheduleLengths :
          /\ size_of_subset_v \in [1..n -> ScheduleSizes]
          /\ count_of_iters_v \in [1..n -> 0..MaxIters]

SpecQuerySizes == InitQuerySizes /\ [][Next]_vars

(***************************************************************************)
(* SpecSchedule: the notebook with the schedule cell 9 sets.  Its first    *)
(* size, 50, is above the pools of the model, so the first call ends in    *)
(* its first round and the steps after it do not occur.                    *)
(***************************************************************************)
size_of_subset_v_cell9 == <<50, 200, 500, 1000, 2000, 5000, 10000>>

count_of_iters_v_swapped == <<100, 40, 20, 15, 10, 1, 3>>

count_of_iters_v_cell9 == <<100, 40, 20, 15, 10, 3, 1>>

InitSchedule ==
    /\ InitNotebook
    /\ train_data = TrainPool
    /\ test_data = TestPool
    /\ IMAGE_LENGTH = Len(TestPool[1]) - 1
    /\ train_size \in 0..MaxRows
    /\ test_size \in 0..MaxQueries
    /\ size_of_subset_v = size_of_subset_v_cell9
    /\ count_of_iters_v = count_of_iters_v_cell9

NextSchedule == DrawTrain \/ DrawTest \/ Cell7 \/ Call \/ Round

SpecSchedule == InitSchedule /\ [][NextSchedule]_vars

(***************************************************************************)
(* SpecCallWith: get_average_accuracy is also called with query sets other *)
(* than the global test_img: any sample of the test pool.                  *)
(***************************************************************************)
\* get_average_accuracy(other_img, train_data, size, iters) for the next entry,
\* other_img being the vectors of a sample of test_data
CallWith ==
    /\ pc = "cell9"
    /\ err = "none"
    /\ zip_pos < zip_len
    /\ \E n \in 1..MaxQueries :
          /\ ~choice_raises(Len(test_data), n)
          /\ \E idx \in choice(Len(test_data), n) :
                gaa' = [test_img |-> images_of(test_data, idx),
                        train_data |-> train_data,
                        train_subset_size |-> size_of_subset_v[zip_pos + 1],
                        iterations_count |-> count_of_iters_v[zip_pos + 1],
                        total_accuracy |-> Frac(0, 1), i |-> 0,
                        train_labels |-> <<>>, train_img |-> <<>>,
                        predicted_results |-> <<>>, success_count |-> 0]
    /\ round_counts' = <<>>
    /\ indexes' = <<>>
    /\ pc' = "loop"
    /\ UNCHANGED <<err, dataVars, subsetVars, cellVars, DM_cells, scheduleVars,
                   zip_pos, points, accuracy_info>>

NextCallWith == Next \/ CallWith

SpecCallWith == Init /\ [][NextCallWith]_vars

(***************************************************************************)
(* SpecFrame: every function of the two notebooks in one specification:    *)
(* the notebook run of Spec, and both classifiers on the scenario.         *)
(***************************************************************************)
InitFrame == InitBounded \/ InitScenario

NextFrame == Next \/ NextClassify \/ ClassifyEach

SpecFrame == InitFrame /\ [][NextFrame]_vars

(***************************************************************************)
(* Vocabulary of the claims about classification.                          *)
(***************************************************************************)
\* sum_j (q_j - r_j)^2 for vectors of one length
SqDist(q, r) == SumSeq([j \in 1..Len(r) |-> (q[j] - r[j]) * (q[j] - r[j])])

\* every query has the reference vector length
QueriesFit ==
    \A k \in 1..Len(test_img) :
        train_img # <<>> /\ Len(test_img[k]) = Len(train_img[1])

\* the query array has the reference vector length (an empty reference fits any)
ShapesFit == train_img = <<>> \/ IMAGE_LENGTH = Len(train_img[1])

StreamReturned == pc \in {"streamed", "both_done", "batch_failed"}

BatchReturned == pc \in {"both_done", "batch_only"}

BatchRan == pc \in {"both_done", "batch_only", "batch_failed", "both_failed"}

\* refs[i] is at minimum squared distance from q
IsNearestIn(refs, i, q) ==
    \A j \in 1..Len(refs) : SqDist(q, refs[i]) <= SqDist(q, refs[j])

\* the lowest index among the vectors of refs at minimum squared distance from q
FirstNearestIn(refs, q) ==
    CHOOSE i \in 1..Len(refs) :
        IsNearestIn(refs, i, q) /\ \A j \in 1..(i - 1) : ~IsNearestIn(refs, j, q)

IsNearest(i, q) == IsNearestIn(train_img, i, q)

FirstNearest(q) == FirstNearestIn(train_img, q)

\* C1: the streaming classification returns one prediction per query, in query
\* order, and the k-th prediction is the label of a reference vector at minimum
\* squared Euclidean distance from the k-th query.
C1_OnePredictionPerQueryNearest ==
    (StreamReturned /\ QueriesFit) =>
        /\ Len(predicted_results) = Len(test_img)
        /\ \A k \in 1..Len(test_img) :
              \E i \in 1..Len(train_img) :
                  /\ IsNearest(i, test_img[k])
                  /\ predicted_results[k] = train_labels[i]

C1_Witness ==
    /\ StreamReturned
    /\ QueriesFit
    /\ Len(train_img) = 3
    /\ Len(train_img[1]) = 2
    /\ Len(test_img) = 2
    /\ predicted_results = <<1, 0>>
    /\ \E i \in 1..3 : ~IsNearest(i, test_img[1])

\* C2: on a tie for the minimum squared distance both classify_image (streaming)
\* and classify_images (batched) return the label of the lowest-indexed reference
\* vector among those at the minimum.
C2_TieLowestIndex ==
    /\ (StreamReturned /\ QueriesFit) =>
          \A k \in 1..Len(predicted_results) :
              predicted_results[k] = train_labels[FirstNearest(test_img[k])]
    /\ (BatchReturned /\ QueriesFit) =>
          \A k \in 1..Len(res) :
              res[k] = train_labels[FirstNearest(test_img[k])]

C2_Witness ==
    /\ pc = "both_done"
    /\ QueriesFit
    /\ Len(test_img) >= 1
    /\ \E i, j \in 1..Len(train_img) :
          /\ i < j
          /\ IsNearest(i, test_img[1])
          /\ IsNearest(j, test_img[1])
          /\ train_labels[i] # train_labels[j]
          /\ predicted_results[1] = train_labels[i]
          /\ res[1] = train_labels[i]

\* C3: for every reference set and every query array of the reference vector
\* length, the batched and the streaming strategy have the same outcome: the
\* same prediction sequence (or both fail).
C3_BatchedEqualsStreaming ==
    (BatchRan /\ ShapesFit) =>
        /\ pc \in {"both_done", "both_failed"}
        /\ pc = "both_done" => res = predicted_results

\* C6: classification fails, and returns no prediction, whenever some query's
\* length differs from the reference vector length or the reference set is empty.
C6_MismatchFails ==
    (pc # "classify" /\ (train_img = <<>> \/ ~QueriesFit)) =>
        /\ ~StreamReturned
        /\ ~BatchReturned
        /\ predicted_results = <<>>
        /\ res = <<>>

\* C10 as stated: (0,0.4) has (0,1) as its nearest reference vector and is
\* predicted label 0; (5,5.4) is predicted label 1, at squared distances 0.16 and
\* 0.36 from (5,5) and (5,6).
C10_AsStated ==
    StreamReturned =>
        \A k \in 1..Len(test_img) :
            /\ test_img[k] = <<0, 4>> =>
                  /\ train_img[argmin(DM_image(test_img[k], train_img))] = <<0, 10>>
                  /\ predicted_results[k] = 0
            /\ test_img[k] = <<50, 54>> =>
                  /\ predicted_results[k] = 1
                  /\ DM_image(test_img[k], train_img)[3] = 16
                  /\ DM_image(test_img[k], train_img)[4] = 36

\* C10 amended: (0,0.4) has (0,0) as its nearest reference vector (squared
\* distance 0.16, against 0.36 to (0,1)) and is predicted label 0; (5,5.4) is
\* predicted label 1, at squared distances 0.16 and 0.36 from (5,5) and (5,6).
C10_Scenario ==
    StreamReturned =>
        \A k \in 1..Len(test_img) :
            /\ test_img[k] = <<0, 4>> =>
                  /\ train_img[argmin(DM_image(test_img[k], train_img))] = <<0, 0>>
                  /\ DM_image(test_img[k], train_img)[1] = 16
                  /\ DM_image(test_img[k], train_img)[2] = 36
                  /\ predicted_results[k] = 0
            /\ test_img[k] = <<50, 54>> =>
                  /\ train_img[argmin(DM_image(test_img[k], train_img))] = <<50, 50>>
                  /\ predicted_results[k] = 1
                  /\ DM_image(test_img[k], train_img)[3] = 16
                  /\ DM_image(test_img[k], train_img)[4] = 36

C10_Witness ==
    /\ StreamReturned
    /\ test_img = << <<0, 4>>, <<50, 54>> >>
    /\ predicted_results = <<0, 1>>

(***************************************************************************)
(* Vocabulary of the claims about sampling and the experiment.             *)
(***************************************************************************)
ValidSize(n, data) == 0 < n /\ n <= Len(data)

\* labels and images are the rows of data at n pairwise distinct indexes
IsSampleOf(labels, images, data, n) ==
    /\ Len(indexes) = n
    /\ Len(labels) = n
    /\ Len(images) = n
    /\ \A i, j \in 1..n : i # j => indexes[i] # indexes[j]
    /\ \A i \in 1..n :
          /\ indexes[i] \in 1..Len(data)
          /\ labels[i] = data[indexes[i]][1]
          /\ images[i] = SubSeq(data[indexes[i]], 2, Len(data[indexes[i]]))

TrainDrawn == pc = "draw_test"

TestDrawn == pc = "cell7"

\* C4: for 0 < n <= size(dataset) get_random_subset returns n records from n
\* pairwise distinct row indices, labels[i] and images[i] being column 0 and
\* columns 1..L of the same row; such a request does not fail.
C4_SampleDistinctRows ==
    /\ (TrainDrawn /\ ValidSize(train_size, train_data) /\ err = "none") =>
          IsSampleOf(train_labels, train_img, train_data, train_size)
    /\ (TestDrawn /\ ValidSize(test_size, test_data)) =>
          IsSampleOf(test_labels, test_img, test_data, test_size)
    /\ (pc = "draw_train" /\ err # "none") => ~ValidSize(train_size, train_data)
    /\ (pc = "draw_test" /\ err # "none") => ~ValidSize(test_size, test_data)

C4_Witness ==
    /\ TrainDrawn
    /\ err = "none"
    /\ train_size = 3
    /\ indexes = <<3, 1, 2>>
    /\ train_labels = <<1, 0, 0>>
    /\ train_img[1] # train_img[2]

\* C5: a request for n = 0 or n > size(dataset) fails and returns no subset.
C5_InvalidSizeFails ==
    /\ ((pc # "draw_train" \/ err # "none")
            /\ (train_size = 0 \/ train_size > Len(train_data))) =>
          /\ pc = "draw_train"
          /\ err # "none"
          /\ train_labels = <<>>
          /\ train_img = <<>>
    /\ ((pc = "cell7" \/ (pc = "draw_test" /\ err # "none"))
            /\ (test_size = 0 \/ test_size > Len(test_data))) =>
          /\ pc = "draw_test"
          /\ err # "none"
          /\ test_labels = <<>>
          /\ test_img = <<>>

\* a call of get_average_accuracy has started, or has returned its value
InCall == pc = "loop"

Returned == pc \in {"cell9", "done"} /\ zip_pos >= 1

ValidEntry(j) ==
    /\ ValidSize(size_of_subset_v[j], train_data)
    /\ count_of_iters_v[j] >= 1

\* C7: the run produces one accuracy point per schedule entry, in schedule
\* order, the i-th point being the value computed for the i-th entry's size; a
\* schedule of valid entries does not fail; the schedule [(2,5),(4,1)] on the
\* 8-row pool yields exactly 2 points.
C7_OnePointPerEntry ==
    /\ pc = "done" =>
          /\ accuracy_info = points
          /\ Len(accuracy_info) = Len(size_of_subset_v)
    /\ Returned =>
          /\ Len(points) = zip_pos
          /\ gaa.train_subset_size = size_of_subset_v[zip_pos]
          /\ gaa.iterations_count = count_of_iters_v[zip_pos]
          /\ points[zip_pos].den > 0
          /\ points[zip_pos].num * (gaa.total_accuracy.den * gaa.iterations_count)
                = gaa.total_accuracy.num * points[zip_pos].den
    /\ (pc = "loop" /\ err # "none") => ~ValidEntry(zip_pos + 1)
    /\ (pc = "done" /\ Len(train_data) = 8
            /\ size_of_subset_v = <<2, 4>> /\ count_of_iters_v = <<5, 1>>) =>
          Len(accuracy_info) = 2

C7_Witness ==
    /\ pc = "done"
    /\ Len(train_data) = 8
    /\ size_of_subset_v = <<2, 4>>
    /\ count_of_iters_v = <<5, 1>>
    /\ Len(accuracy_info) = 2
    /\ accuracy_info[1] # accuracy_info[2]

\* the matching predictions of the latest round, counted from the state
Matches ==
    Cardinality({q \in 1..Len(test_img) : gaa.predicted_results[q] = test_labels[q]})

\* C8: a call for an entry (size, repetitions) with repetitions >= 1 performs
\* exactly `repetitions` rounds; each round draws a subset of `size` distinct rows
\* of the train pool and classifies the whole query set against it; the value
\* emitted is the sum of the per-round accuracies (matching predictions / query
\* count) divided by `repetitions`.
C8_RoundsAndMean ==
    /\ (InCall \/ Returned) =>
          /\ gaa.i = Len(round_counts)
          /\ gaa.i <= gaa.iterations_count
          /\ gaa.total_accuracy.den > 0
          /\ gaa.total_accuracy.num * Len(test_img)
                = SumSeq(round_counts) * gaa.total_accuracy.den
    /\ ((InCall \/ Returned) /\ gaa.i >= 1 /\ err = "none") =>
          /\ IsSampleOf(gaa.train_labels, gaa.train_img, train_data,
                        gaa.train_subset_size)
          /\ Len(gaa.predicted_results) = Len(test_img)
          /\ \A q \in 1..Len(test_img) :
                gaa.predicted_results[q]
                    = gaa.train_labels[FirstNearestIn(gaa.train_img, test_img[q])]
          /\ round_counts[gaa.i] = Matches
    /\ Returned =>
          /\ gaa.iterations_count >= 1
          /\ Len(round_counts) = gaa.iterations_count
          /\ points[zip_pos].den > 0
          /\ points[zip_pos].num * (Len(test_img) * gaa.iterations_count)
                = SumSeq(round_counts) * points[zip_pos].den

C8_Witness ==
    /\ Returned
    /\ gaa.iterations_count = 2
    /\ gaa.train_subset_size = 2
    /\ round_counts = <<1, 2>>
    /\ points[zip_pos] = [num |-> 3, den |-> 4]

\* C9: the query set is drawn once, before the schedule starts, and no later
\* step re-draws or modifies it; every call classifies that query set.
C9_QuerySetFixed ==
    /\ [][pc \notin {"draw_train", "draw_test"} =>
              (test_img' = test_img /\ test_labels' = test_labels)]_vars
    /\ []((InCall \/ Returned) =>
              /\ gaa.test_img = test_img
              /\ Len(test_img) = test_size
              /\ Len(test_labels) = test_size)

C9_Witness ==
    /\ InCall
    /\ zip_pos = 1
    /\ gaa.i = 2
    /\ Len(test_img) = 2
    /\ gaa.test_img = test_img
    /\ Len(gaa.predicted_results) = 2

(***************************************************************************)
(* Claims about failures of the run.                                       *)
(***************************************************************************)
\* C11: a run with an empty size/repetition schedule fails (EmptyScheduleError)
\* instead of completing with an empty sequence of points.
C11_EmptyScheduleFails ==
    (size_of_subset_v = <<>> \/ count_of_iters_v = <<>>) =>
        ~(pc = "done" /\ err = "none" /\ accuracy_info = <<>>)

\* C12: when a sampler or classifier call fails during the run, the error ends
\* the run at that point: no step follows a failure (no retry, no later
\* repetition, no later schedule entry), accuracy_info is never assigned, the
\* failed entry emits no point, and a call whose size exceeds the train pool
\* completes no repetition.
C12_ErrorStopsRun ==
    /\ [][err = "none"]_vars
    /\ [](err # "none" =>
            /\ pc \in {"draw_train", "draw_test", "cell7", "loop"}
            /\ accuracy_info = <<>>
            /\ pc = "loop" =>
                  /\ zip_pos < zip_len
                  /\ Len(points) = zip_pos
                  /\ gaa.i = Len(round_counts)
                  /\ gaa.i < gaa.iterations_count \/ gaa.iterations_count = 0)
    /\ []((InCall /\ gaa.train_subset_size > Len(train_data)) =>
            /\ gaa.i = 0
            /\ round_counts = <<>>
            /\ gaa.predicted_results = <<>>)
    /\ [](\A j \in 1..Len(points) : size_of_subset_v[j] <= Len(train_data))

C12_Witness ==
    /\ err = "ValueError"
    /\ pc = "loop"
    /\ Len(size_of_subset_v) = 2
    /\ zip_pos = 0
    /\ points = <<>>
    /\ gaa.train_subset_size > Len(train_data)
    /\ gaa.iterations_count = 2
    /\ gaa.i = 0

(***************************************************************************)
(* Claims about the accuracy values.                                       *)
(***************************************************************************)
\* a quotient that is a number of [0, 1]
InUnitInterval(f) == f.den > 0 /\ 0 <= f.num /\ f.num <= f.den

\* C14: every accuracy value lies in [0,1]: the success count is between 0 and
\* the number of queries, after i repetitions total_accuracy is between 0 and i,
\* and every emitted mean accuracy (and the accuracy of cell 7) is between 0
\* and 1.
C14_AccuracyInUnitInterval ==
    /\ pc \in {"cell9", "loop", "done"} =>
          /\ 0 <= success_count
          /\ success_count <= Len(test_img)
          /\ InUnitInterval(accuracy)
    /\ (InCall \/ Returned) =>
          /\ 0 <= gaa.success_count
          /\ gaa.success_count <= Len(gaa.test_img)
          /\ gaa.total_accuracy.den > 0
          /\ 0 <= gaa.total_accuracy.num
          /\ gaa.total_accuracy.num <= gaa.i * gaa.total_accuracy.den
    /\ \A j \in 1..Len(points) : InUnitInterval(points[j])
    /\ \A j \in 1..Len(accuracy_info) : InUnitInterval(accuracy_info[j])

(***************************************************************************)
(* Claims about the effects on the inputs.                                 *)
(***************************************************************************)
\* C15: sampling, classification and the experiment run leave their inputs
\* unchanged: no step changes the train pool or the test pool; the reference
\* subset changes only where cell 5 assigns it and the query set only where
\* cell 5 assigns it; the pool and the query set passed to get_average_accuracy
\* still equal the caller's, and the subset a round drew still holds the rows
\* it was drawn from after the round has classified against it.
C15_InputsUnchanged ==
    /\ [][/\ train_data' = train_data
          /\ test_data' = test_data
          /\ pc # "draw_train" =>
                (train_img' = train_img /\ train_labels' = train_labels)
          /\ pc # "draw_test" =>
                (test_img' = test_img /\ test_labels' = test_labels)]_vars
    /\ []((InCall \/ Returned) =>
            /\ gaa.train_data = train_data
            /\ gaa.test_img = test_img)
    /\ []((InCall /\ gaa.i >= 1 /\ err = "none") =>
            /\ Len(gaa.train_img) = Len(indexes)
            /\ \A i \in 1..Len(indexes) :
                  <<gaa.train_labels[i]>> \o gaa.train_img[i] = train_data[indexes[i]])

C15_Witness ==
    /\ InCall
    /\ zip_pos = 1
    /\ gaa.i = 2
    /\ gaa.train_subset_size = 2
    /\ train_data = TrainPool
    /\ gaa.train_data = TrainPool
    /\ test_img = images_of(TestPool, <<2, 3>>)
    /\ train_img = images_of(TrainPool, <<3>>)
    /\ gaa.train_img # train_img

(***************************************************************************)
(* Claims about the memory of a classification.                            *)
(***************************************************************************)
\* the memory budgets considered, in cells
Budgets == 0..(2 * MaxRef * MaxQueries)

\* cells of the full distance computation: reference size x query count x L
FullMatrix(refs, queries) == Len(refs) * Len(queries) * IMAGE_LENGTH

\* cells of the computation for one query: reference size x 1 x L
OneQuery(refs) == Len(refs) * IMAGE_LENGTH

\* C16: for every memory budget, a classification of the run whose full matrix
\* (reference size x query count x L) would exceed the budget is carried out one
\* query at a time: the largest array it builds has reference size x L cells,
\* and with two or more queries that is less than the full matrix.  This holds
\* of cell 7, of every round of get_average_accuracy and of the older
\* notebook's loop over classify_images with N_test = 1.
C16_StreamingOverBudget ==
    \A budget \in Budgets :
        /\ (pc = "cell9" /\ zip_pos = 0
                /\ FullMatrix(train_img, test_img) > budget) =>
              /\ DM_cells = OneQuery(train_img)
              /\ Len(test_img) >= 2 => DM_cells < FullMatrix(train_img, test_img)
        /\ (InCall /\ gaa.predicted_results # <<>>
                /\ FullMatrix(gaa.train_img, gaa.test_img) > budget) =>
              /\ DM_cells = OneQuery(gaa.train_img)
              /\ Len(gaa.test_img) >= 2 =>
                    DM_cells < FullMatrix(gaa.train_img, gaa.test_img)
        /\ (pc = "each_done" /\ FullMatrix(train_img, test_img) > budget) =>
              /\ DM_cells = OneQuery(train_img)
              /\ Len(test_img) >= 2 => DM_cells < FullMatrix(train_img, test_img)

C16_Witness ==
    /\ InCall
    /\ gaa.i = 1
    /\ Len(gaa.train_img) = 2
    /\ Len(gaa.test_img) = 2
    /\ FullMatrix(gaa.train_img, gaa.test_img) = 8
    /\ DM_cells = 4

(***************************************************************************)
(* Claims about the schedule.                                              *)
(***************************************************************************)
\* C17: the schedule the experiment runs is monotone: over consecutive entries
\* the size strictly increases and the repetition count does not increase, and
\* every repetition count is at least 1; a call takes its size and repetition
\* count from the entry of the schedule it is made for.
C17_ScheduleMonotone ==
    /\ Len(size_of_subset_v) = Len(count_of_iters_v)
    /\ zip_len >= 2
    /\ \A j \in 1..(zip_len - 1) :
          /\ size_of_subset_v[j] < size_of_subset_v[j + 1]
          /\ count_of_iters_v[j] >= count_of_iters_v[j + 1]
    /\ \A j \in 1..zip_len : count_of_iters_v[j] >= 1
    /\ InCall =>
          /\ gaa.train_subset_size = size_of_subset_v[zip_pos + 1]
          /\ gaa.iterations_count = count_of_iters_v[zip_pos + 1]

C17_Witness ==
    /\ InCall
    /\ zip_pos = 0
    /\ gaa.train_subset_size = 50
    /\ gaa.iterations_count = 100
    /\ size_of_subset_v[7] = 10000
    /\ count_of_iters_v[7] = 1

(***************************************************************************)
(* Claims about the scoring inside get_average_accuracy.                   *)
(***************************************************************************)
\* the true label of a query: the label of the test pool's row with vector q
TrueLabel(q) ==
    test_data[CHOOSE j \in 1..Len(test_data) : Tail(test_data[j]) = q][1]

\* the predictions of the latest round that equal the label of their own query
OwnMatches ==
    Cardinality({q \in 1..Len(gaa.test_img) :
        gaa.predicted_results[q] = TrueLabel(gaa.test_img[q])})

\* C18: for every query set passed to get_average_accuracy as test_img, a round
\* that has classified the queries is scored (it does not fail), its success
\* count is the number of queries of that test_img whose prediction equals the
\* true label of that same query, and the accumulated total is the sum of those
\* counts divided by the number of queries of that test_img.
C18_ScoredAgainstOwnLabels ==
    /\ (InCall /\ gaa.predicted_results # <<>>) => err = "none"
    /\ ((InCall \/ Returned) /\ gaa.i >= 1) =>
          /\ round_counts[gaa.i] = OwnMatches
          /\ gaa.total_accuracy.num * Len(gaa.test_img)
                = SumSeq(round_counts) * gaa.total_accuracy.den

(***************************************************************************)
(* Claims about a repetition count of 0.                                   *)
(***************************************************************************)
\* C19: a schedule entry with repetition count 0 never yields an accuracy
\* point: its call makes no draw and no classification and fails with
\* ZeroDivisionError at the final division, the run ends there, and neither
\* points nor a completed run holds a value for such an entry.
C19_ZeroRepetitionsFail ==
    /\ (InCall /\ gaa.iterations_count = 0) =>
          /\ gaa.i = 0
          /\ round_counts = <<>>
          /\ indexes = <<>>
          /\ gaa.train_img = <<>>
          /\ gaa.train_labels = <<>>
          /\ gaa.predicted_results = <<>>
          /\ err \in {"none", "ZeroDivisionError"}
          /\ Len(points) = zip_pos
    /\ \A j \in 1..Len(points) : count_of_iters_v[j] # 0
    /\ err = "ZeroDivisionError" =>
          /\ pc = "loop"
          /\ gaa.iterations_count = 0
          /\ count_of_iters_v[zip_pos + 1] = 0
          /\ accuracy_info = <<>>
    /\ pc = "done" => \A j \in 1..zip_len : count_of_iters_v[j] # 0

C19_Witness ==
    /\ err = "ZeroDivisionError"
    /\ pc = "loop"
    /\ count_of_iters_v = <<2, 0>>
    /\ zip_pos = 1
    /\ Len(points) = 1
    /\ indexes = <<>>
    /\ gaa.i = 0

====
